---- MODULE Spec2Model ----
(***************************************************************************)
(* writecream-2api: an OpenAI-compatible gateway in front of one upstream. *)
(* The model follows src/index.ts (version 1.1.0-bun) and, where the       *)
(* repository's second port differs, src/unnamed/part_001 (version 2.0.0): *)
(* the variable rev says which of the two files is the running server.     *)
(*                                                                         *)
(* Strings that the code inspects character by character (answer texts,    *)
(* stream fragments) are sequences of one-character strings.  A parsed     *)
(* JSON value is a record that keeps exactly the fields the code reads.    *)
(***************************************************************************)
EXTENDS Integers, Sequences, FiniteSets, TLC

VARIABLES
  key,      \* CONFIG.API_MASTER_KEY
  rev,      \* which source file is deployed: "index" or "part_001"
  st,       \* st[r]: the state of request r (request, handler position, stream)
  rawData,  \* accumulateStreamData: its argument, split into lines
  lineIdx,  \* accumulateStreamData: lines consumed so far by the for loop
  fullText  \* accumulateStreamData: its accumulator

vars == <<key, rev, st, rawData, lineIdx, fullText>>

\* ---------------------------------------------------------------- bounds
MaxLen == 3
MaxLines == 2
MaxRaw == 3

\* ------------------------------------------------------------- characters
Alphabet == {"a", "b", " "}

IsSpace(c) == c = " "

Texts == UNION {[1..n -> Alphabet] : n \in 0..MaxLen}

RECURSIVE Flatten(_)
Flatten(ss) == IF ss = <<>> THEN <<>> ELSE Head(ss) \o Flatten(Tail(ss))

\* ------------------------------------------------------------ JS values
\* A primitive as the code sees it: its type tag and, for a string (or the
\* text a number is converted to by +=), its characters.
Undef == [t |-> "undefined", s |-> <<>>]
Null  == [t |-> "null", s |-> <<>>]
Str(s) == [t |-> "string", s |-> s]
Num == [t |-> "number", s |-> <<"5">>]

\* JS truthiness: if (x), !x, x && y
Truthy(p) ==
  \/ p.t = "string" /\ p.s # <<>>
  \/ p.t = "number"
  \/ p.t = "object"
  \/ p.t = "array"

\* ----------------------------------------------------- String.split(/(\s+)/)
\* index of the first character of s at or after i that satisfies / fails
\* IsSpace, Len(s)+1 when there is none
RECURSIVE FirstSpace(_, _)
FirstSpace(s, i) ==
  IF i > Len(s) THEN Len(s) + 1
  ELSE IF IsSpace(s[i]) THEN i ELSE FirstSpace(s, i + 1)

RECURSIVE FirstNonSpace(_, _)
FirstNonSpace(s, i) ==
  IF i > Len(s) THEN Len(s) + 1
  ELSE IF IsSpace(s[i]) THEN FirstNonSpace(s, i + 1) ELSE i

\* text.split(/\s+/): the separators are dropped
RECURSIVE SplitDropSeparators(_)
SplitDropSeparators(text) ==
  LET p == FirstSpace(text, 1)
      q == FirstNonSpace(text, p)
  IN  IF p > Len(text) THEN <<text>>
      ELSE <<SubSeq(text, 1, p - 1)>>
             \o SplitDropSeparators(SubSeq(text, q, Len(text)))

\* text.split(/(\s+)/): the pieces between whitespace runs, each run kept as
\* an element of its own (the capture group); a run at either end of the text
\* leaves an empty piece there
RECURSIVE SplitWords(_)
SplitWords(text) ==
  LET p == FirstSpace(text, 1)
      q == FirstNonSpace(text, p)
  IN  IF p > Len(text) THEN <<text>>
      ELSE <<SubSeq(text, 1, p - 1), SubSeq(text, p, q - 1)>>
             \o SplitWords(SubSeq(text, q, Len(text)))

\* ------------------------------------------------------- parsed JSON values
\* An object that may carry a content field: choices[0].message, .delta
NoObj == [t |-> "undefined", content |-> Undef]
Obj(c) == [t |-> "object", content |-> c]

\* jsonData.data
NoData == [t |-> "undefined", response_content |-> Undef]
NullData == [t |-> "null", response_content |-> Undef]
Data(rc) == [t |-> "object", response_content |-> rc]

\* jsonData.choices
NoChoices == [t |-> "undefined", elems |-> <<>>]
Choices(es) == [t |-> "array", elems |-> es]
Choice(m, d) == [message |-> m, delta |-> d]

\* a JSON document: null, a number, or an object with the fields read
NullDoc == [t |-> "null", success |-> FALSE, data |-> NoData, choices |-> NoChoices]
NumDoc == [t |-> "number", success |-> FALSE, data |-> NoData, choices |-> NoChoices]
ObjDoc(succ, d, c) == [t |-> "object", success |-> succ, data |-> d, choices |-> c]

\* ------------------------------------------------------------ raw text lines
\* One line of an upstream body: optional surrounding whitespace (pad), an
\* optional leading "data: ", and then nothing ("blank"), the text [DONE]
\* ("done"), the compact text of a JSON document ("json") or anything else
\* ("garbage").
Line(pad, prefix, kind, doc) ==
  [pad |-> pad, prefix |-> prefix, kind |-> kind, doc |-> doc]

BlankLine == Line(FALSE, FALSE, "blank", NullDoc)
DoneLine == Line(FALSE, TRUE, "done", NullDoc)
GarbageLine == Line(FALSE, FALSE, "garbage", NullDoc)
JsonLine(prefix, doc) == Line(FALSE, prefix, "json", doc)

\* String.trim()
Trim(l) == [l EXCEPT !.pad = FALSE]

\* JSON.parse of one string: it allows whitespace around the value
JSONparse(l) ==
  [ok |-> l.kind = "json" /\ ~l.prefix, doc |-> l.doc]

\* JSON.parse of a whole body: the lines joined by line breaks are one JSON
\* value exactly when one line holds it and the others hold only whitespace
IsWhite(l) == l.kind = "blank" /\ ~l.prefix

JSONparseBody(lines) ==
  LET solid == {i \in 1..Len(lines) : ~IsWhite(lines[i])}
  IN  IF Cardinality(solid) = 1
      THEN JSONparse(lines[CHOOSE i \in solid : TRUE])
      ELSE [ok |-> FALSE, doc |-> NullDoc]

\* ------------------------------------------------- accumulateStreamData
\* the string tests of the loop body
IsEmpty(l) == l.kind = "blank" /\ ~l.prefix /\ ~l.pad
IsDoneSignal(l) == l.kind = "done" /\ l.prefix /\ ~l.pad
StartsWithData(l) == l.prefix /\ ~l.pad

\* one iteration of `for (const line of lines)`, on the accumulator acc
accumulateLineNoStrip(acc, line) ==
  LET trimmed == Trim(line)
      p == JSONparse(trimmed)
      json == p.doc
  IN  IF IsEmpty(trimmed) \/ IsDoneSignal(trimmed) THEN acc
      ELSE IF ~p.ok \/ json.t = "null" THEN acc
      ELSE IF /\ json.choices.t = "array"
              /\ Len(json.choices.elems) > 0
              /\ json.choices.elems[1].delta.t = "object"
              /\ Truthy(json.choices.elems[1].delta.content)
           THEN acc \o json.choices.elems[1].delta.content.s
           ELSE acc

accumulateLine(acc, line) ==
  LET trimmed == Trim(line)
      \* !trimmed || trimmed === 'data: [DONE]'
      skip == IsEmpty(trimmed) \/ IsDoneSignal(trimmed)
      \* trimmed.startsWith('data: ') ? trimmed.slice(6) : trimmed
      jsonStr == IF StartsWithData(trimmed)
                 THEN [trimmed EXCEPT !.prefix = FALSE]
                 ELSE trimmed
      p == JSONparse(jsonStr)
      json == p.doc
  IN  IF skip THEN acc
      \* JSON.parse threw, or json.choices threw on null: the catch ignores it
      ELSE IF ~p.ok \/ json.t = "null" THEN acc
      ELSE IF /\ json.choices.t = "array"
              /\ Len(json.choices.elems) > 0
              /\ json.choices.elems[1].delta.t = "object"
              /\ Truthy(json.choices.elems[1].delta.content)
           THEN acc \o json.choices.elems[1].delta.content.s
           ELSE acc

RECURSIVE accumulateFrom(_, _)
accumulateFrom(acc, lines) ==
  IF lines = <<>> THEN acc
  ELSE accumulateFrom(accumulateLine(acc, Head(lines)), Tail(lines))

\* rawData.split('\n') is the sequence of lines handed in
accumulateStreamData(lines) == accumulateFrom(<<>>, lines)

\* ---------------------------------- the normalizer of src/index.ts:120-139
\* the inner try reading choices[0].text instead of choices[0].message.content
StructuredDecodeText(json) ==
  IF json.t = "null" THEN [threw |-> TRUE, val |-> Undef]
  ELSE IF json.t # "object" THEN [threw |-> FALSE, val |-> Str(<<>>)]
  ELSE IF json.data.t = "object" /\ Truthy(json.data.response_content)
       THEN [threw |-> FALSE, val |-> json.data.response_content]
  ELSE IF json.choices.t = "array"
       THEN IF Len(json.choices.elems) = 0
            THEN [threw |-> TRUE, val |-> Undef]
            ELSE [threw |-> FALSE, val |-> Undef]
  ELSE [threw |-> FALSE, val |-> Str(<<>>)]

\* The body of the inner try: the value assigned to fullContent, or threw
\* when a property is read from null or undefined (a TypeError).
StructuredDecode(json) ==
  IF json.t = "null" THEN [threw |-> TRUE, val |-> Undef]
  ELSE IF json.t # "object" THEN [threw |-> FALSE, val |-> Str(<<>>)]
  ELSE IF json.data.t = "object" /\ Truthy(json.data.response_content)
       THEN [threw |-> FALSE, val |-> json.data.response_content]
  ELSE IF json.choices.t = "array"
       THEN IF Len(json.choices.elems) = 0
               \/ json.choices.elems[1].message.t = "undefined"
            THEN [threw |-> TRUE, val |-> Undef]
            ELSE [threw |-> FALSE, val |-> json.choices.elems[1].message.content]
  ELSE [threw |-> FALSE, val |-> Str(<<>>)]

\* fullContent after the try/catch: the structured value, or on any
\* exception (syntax error or TypeError) what the line salvage accumulates
ExtractContent(lines) ==
  LET p == JSONparseBody(lines)
      d == StructuredDecode(p.doc)
  IN  IF p.ok /\ ~d.threw THEN d.val
      ELSE Str(accumulateStreamData(lines))

\* ------------------------- the validation of src/unnamed/part_001:130-138
\* upstreamRes.json() then the validation: threw (the handler's catch
\* answers 500), invalid (502), or the response_content string
ExtractContent_v2(lines) ==
  LET p == JSONparseBody(lines)
      data == p.doc
  IN  IF ~p.ok \/ data.t = "null"
      THEN [threw |-> TRUE, valid |-> FALSE, val |-> Undef]
      ELSE IF \/ data.t # "object"
              \/ ~data.success
              \/ data.data.t # "object"
              \/ data.data.response_content.t # "string"
           THEN [threw |-> FALSE, valid |-> FALSE, val |-> Undef]
           ELSE [threw |-> FALSE, valid |-> TRUE,
                 val |-> data.data.response_content]

\* ------------------------------------------------------------ configuration
DEFAULT_KEY == "1"
DEFAULT_MODEL == "writecream-chat"

Keys == {DEFAULT_KEY, "k"}
Revs == {"index", "part_001"}
Ids == {"chatcmpl-1", "chatcmpl-2"}

\* --------------------------------------------------------------- requests
\* The Authorization header: absent, or present with or without the
\* "Bearer " start, and the text after the first seven characters.
NoHeader == [present |-> FALSE, bearer |-> FALSE, token |-> ""]
Headers ==
  {NoHeader,
   [present |-> TRUE, bearer |-> FALSE, token |-> "k"],
   [present |-> TRUE, bearer |-> TRUE, token |-> "k"],
   [present |-> TRUE, bearer |-> TRUE, token |-> "w"]}

Methods == {"GET", "POST", "OPTIONS"}
ChatPath == "/v1/chat/completions"
ModelsPath == "/v1/models"
Paths == {ChatPath, ModelsPath, "/v1/other", "/"}

\* url.pathname.startsWith('/v1/')
StartsWithV1(path) == path \in {ChatPath, ModelsPath, "/v1/other"}

\* The request body: malformed JSON, or an object with an optional model
\* ("" when absent) and an optional stream flag.
RequestBodies ==
  [valid : BOOLEAN, model : {"", "m1"}, stream : {"true", "false", "absent"}]

HttpRequests ==
  [method : Methods, path : Paths, auth : Headers, body : RequestBodies]

\* ------------------------------------------------------------- responses
NoResponse ==
  [kind |-> "none", status |-> 0, code |-> "", id |-> "", model |-> "",
   content |-> Undef]

\* createErrorResponse(message, status, code)
createErrorResponse(status, code) ==
  [kind |-> "error", status |-> status, code |-> code, id |-> "", model |-> "",
   content |-> Undef]

\* handleCorsPreflight()
handleCorsPreflight ==
  [kind |-> "preflight", status |-> 204, code |-> "", id |-> "", model |-> "",
   content |-> Undef]

\* handleModelsRequest()
handleModelsRequest ==
  [kind |-> "models", status |-> 200, code |-> "", id |-> "",
   model |-> DEFAULT_MODEL, content |-> Undef]

\* the non-streaming envelope, src/index.ts:159-176
openAIResponseDefaultModel(requestId, model, fullContent) ==
  [kind |-> "completion", status |-> 200, code |-> "", id |-> requestId,
   model |-> DEFAULT_MODEL, content |-> fullContent]

openAIResponse(requestId, model, fullContent) ==
  [kind |-> "completion", status |-> 200, code |-> "", id |-> requestId,
   model |-> model, content |-> fullContent]

\* new Response(stream, ...), src/index.ts:149-156
streamResponse(requestId, model, fullContent) ==
  [kind |-> "stream", status |-> 200, code |-> "", id |-> requestId,
   model |-> model, content |-> fullContent]

\* ----------------------------------------------------------- stream chunks
\* `data: ${JSON.stringify(chunk)}\n\n` with a content delta
contentChunkSharedId(requestId, model, word) ==
  [object |-> "chat.completion.chunk", id |-> "chatcmpl-1", model |-> model,
   hasContent |-> TRUE, content |-> word, finish_reason |-> "null"]

contentChunk(requestId, model, word) ==
  [object |-> "chat.completion.chunk", id |-> requestId, model |-> model,
   hasContent |-> TRUE, content |-> word, finish_reason |-> "null"]

\* the final closing chunk: delta {} and finish_reason "stop"
finalChunkDefaultModel(requestId, model) ==
  [object |-> "chat.completion.chunk", id |-> requestId,
   model |-> DEFAULT_MODEL,
   hasContent |-> FALSE, content |-> <<>>, finish_reason |-> "stop"]

finalChunk(requestId, model) ==
  [object |-> "chat.completion.chunk", id |-> requestId, model |-> model,
   hasContent |-> FALSE, content |-> <<>>, finish_reason |-> "stop"]

\* 'data: [DONE]\n\n'
DoneSentinel ==
  [object |-> "[DONE]", id |-> "", model |-> "",
   hasContent |-> FALSE, content |-> <<>>, finish_reason |-> ""]

\* ------------------------------------------------------- upstream replies
Delta(c) == ObjDoc(FALSE, NoData, Choices(<<Choice(NoObj, Obj(c))>>))
Message(d, c) == ObjDoc(FALSE, d, Choices(<<Choice(Obj(c), NoObj)>>))

\* the JSON documents an upstream body may hold on one line
UpstreamDocs ==
  {ObjDoc(TRUE, Data(Str(t)), NoChoices) : t \in Texts}
  \cup {ObjDoc(succ, Data(rc), c) :
          succ \in BOOLEAN,
          rc \in {Undef, Num, Str(<<>>), Str(<<"a">>)},
          c \in {NoChoices, Choices(<<Choice(Obj(Str(<<"b">>)), NoObj)>>)}}
  \cup {Message(NoData, c) : c \in {Str(t) : t \in Texts} \cup {Undef, Num}}
  \cup {Message(NullData, Str(<<"a">>)),
        NullDoc, NumDoc,
        ObjDoc(FALSE, NoData, NoChoices),
        ObjDoc(TRUE, NoData, NoChoices),
        ObjDoc(FALSE, NoData, Choices(<<>>)),
        ObjDoc(FALSE, NoData, Choices(<<Choice(NoObj, NoObj)>>)),
        Delta(Str(<<"a">>))}

\* the lines of an event-stream body
SseLines ==
  {BlankLine, DoneLine, GarbageLine,
   JsonLine(TRUE, Delta(Str(<<"a">>))),
   JsonLine(TRUE, Delta(Str(<<" ">>))),
   JsonLine(FALSE, Delta(Str(<<"b">>)))}

UpstreamBodies ==
  {<<JsonLine(FALSE, d)>> : d \in UpstreamDocs}
  \cup UNION {[1..n -> SseLines] : n \in 1..MaxLines}

\* what the await of fetch(CONFIG.UPSTREAM_URL) and of the body brings:
\* a rejected fetch, a non-2xx status, or a 2xx status with a body
UpstreamReplies ==
  {[outcome |-> "rejected", status |-> 0, lines |-> <<BlankLine>>],
   [outcome |-> "status", status |-> 503, lines |-> <<GarbageLine>>]}
  \cup {[outcome |-> "ok", status |-> 200, lines |-> b] : b \in UpstreamBodies}

\* ----------------------------------------------------------- request state
NewRequest(q) ==
  [pc |-> "new", req |-> q, requestId |-> "", bodyRead |-> FALSE,
   upstreamCalls |-> 0, reply |-> "none", upBody |-> <<>>, resp |-> NoResponse,
   phase |-> "none", chan |-> "none", text |-> <<>>, words |-> <<>>, i |-> 0,
   sid |-> "", smodel |-> "", written |-> <<>>, cancelled |-> FALSE,
   threw |-> FALSE, lateIters |-> 0, lateWrites |-> 0, sleeps |-> 0]

Respond(s, response) == [s EXCEPT !.pc = "responded", !.resp = response]

\* ------------------------------------------------------------ authentication
\* src/index.ts:47-57: NoResponse when the request may pass
authenticateOpen(k, h) == NoResponse

authenticate(k, h) ==
  IF k # DEFAULT_KEY
  THEN IF ~h.present \/ ~h.bearer
       THEN createErrorResponse(401, "unauthorized")
       ELSE IF h.token # k
            THEN createErrorResponse(403, "invalid_api_key")
            ELSE NoResponse
  ELSE NoResponse

\* src/unnamed/part_001:57-62: token is null without "Bearer "
authenticate_v2(k, h) ==
  IF k # DEFAULT_KEY /\ ~(h.present /\ h.bearer /\ h.token = k)
  THEN createErrorResponse(401, "unauthorized")
  ELSE NoResponse

\* -------------------------------------------------------- createPseudoStream
\* src/index.ts:224-229: the stream as constructed, before start() runs
createPseudoStream(s, text, requestId, model) ==
  [s EXCEPT !.phase = "Idle", !.chan = "readable", !.text = text,
            !.words = SplitWords(text), !.i = 0,
            !.sid = requestId, !.smodel = model]

\* controller.enqueue(...) on a stream that is closed or errored throws a
\* TypeError out of start(): its promise rejects, which errors the stream
\* only if it is still readable
Throw(s) ==
  [s EXCEPT !.phase = "Closed", !.threw = TRUE, !.lateWrites = @ + 1,
            !.chan = IF @ = "readable" THEN "errored" ELSE @]

enqueue(s, chunk) ==
  IF s.chan = "readable"
  THEN [s EXCEPT !.written = Append(@, chunk)]
  ELSE Throw(s)

\* await Bun.sleep(20): start() is suspended until the timer fires
sleep(s) ==
  IF s.threw THEN s
  ELSE [s EXCEPT !.phase = "Emitting", !.sleeps = @ + 1]

\* the loop body with the write wrapped in a try/catch that swallows a
\* failed enqueue and goes on
iterateSwallow(s, i) ==
  LET s1 == [s EXCEPT !.i = i,
                      !.lateIters = IF s.cancelled THEN @ + 1 ELSE @]
  IN  IF i > Len(s.words) THEN [s EXCEPT !.i = i, !.phase = "Finishing"]
      ELSE IF s1.words[i] # <<>> /\ s1.chan = "readable"
           THEN sleep(enqueue(s1, contentChunk(s1.sid, s1.smodel, s1.words[i])))
           ELSE sleep(s1)

\* one pass of the for loop over words[i], src/index.ts:231-248
iterate(s, i) ==
  LET s1 == [s EXCEPT !.i = i,
                      !.lateIters = IF s.cancelled THEN @ + 1 ELSE @]
  IN  IF i > Len(s.words) THEN [s EXCEPT !.i = i, !.phase = "Finishing"]
      ELSE IF s1.words[i] # <<>>
           THEN sleep(enqueue(s1, contentChunk(s1.sid, s1.smodel, s1.words[i])))
           ELSE sleep(s1)

\* src/unnamed/part_001:189-210: `if (!word) continue;` goes on to the next
\* element without suspending
RECURSIVE iterate_v2(_, _)
iterate_v2(s, i) ==
  LET s1 == [s EXCEPT !.i = i,
                      !.lateIters = IF s.cancelled THEN @ + 1 ELSE @]
  IN  IF i > Len(s.words) THEN [s EXCEPT !.i = i, !.phase = "Finishing"]
      ELSE IF s1.words[i] = <<>> THEN iterate_v2(s1, i + 1)
      ELSE sleep(enqueue(s1, contentChunk(s1.sid, s1.smodel, s1.words[i])))

\* the code after the loop without its sentinel line
finishStreamNoSentinel(s) ==
  LET s1 == enqueue(s, finalChunk(s.sid, s.smodel))
  IN  IF s1.threw THEN s1
      ELSE [s1 EXCEPT !.chan = "closed", !.phase = "Closed"]

\* the code after the loop with controller.close() before the sentinel
finishStreamCloseFirst(s) ==
  LET s1 == enqueue(s, finalChunk(s.sid, s.smodel))
      s2 == [s1 EXCEPT !.chan = "closed"]
  IN  IF s1.threw THEN s1 ELSE enqueue(s2, DoneSentinel)

\* the code after the loop, src/index.ts:250-264
finishStream(s) ==
  LET s1 == enqueue(s, finalChunk(s.sid, s.smodel))
      s2 == enqueue(s1, DoneSentinel)
  IN  IF s1.threw THEN s1
      ELSE [s2 EXCEPT !.chan = "closed", !.phase = "Closed"]

\* ================================================================ actions
\* the requests a run may hold; st is defined on those it does hold
Requests == {"r1", "r2"}

\* crypto.randomUUID(): an id no other request holds
FreshIds(r) == Ids \ {st[o].requestId : o \in DOMAIN st \ {r}}

\* -------------------------------------------------- src/index.ts:25-70, 87-89
\* Bun.serve's fetch and handleApi, up to the first await of
\* handleChatCompletions (request.json())
fetch(r) ==
  /\ r \in DOMAIN st
  /\ rev = "index"
  /\ st[r].pc = "new"
  /\ LET s == st[r]
         q == s.req
         denied == authenticate(key, q.auth)
     IN  \E id \in FreshIds(r) :
           st' = [st EXCEPT ![r] =
             IF q.method = "OPTIONS" THEN Respond(s, handleCorsPreflight)
             ELSE IF ~StartsWithV1(q.path)
                  THEN Respond(s, createErrorResponse(404, "not_found"))
             ELSE IF denied.kind # "none" THEN Respond(s, denied)
             ELSE IF q.path = ModelsPath
                  THEN Respond([s EXCEPT !.requestId = id], handleModelsRequest)
             ELSE IF q.path = ChatPath
                  THEN IF q.method # "POST"
                       THEN Respond([s EXCEPT !.requestId = id],
                                    createErrorResponse(405, "method_not_allowed"))
                       ELSE [s EXCEPT !.requestId = id, !.pc = "awaitJson",
                                      !.bodyRead = TRUE]
             ELSE Respond([s EXCEPT !.requestId = id],
                          createErrorResponse(404, "not_found"))]
  /\ UNCHANGED <<key, rev, rawData, lineIdx, fullText>>

\* ---------------------------------------- src/unnamed/part_001:46-77, 99-101
fetch_v2(r) ==
  /\ r \in DOMAIN st
  /\ rev = "part_001"
  /\ st[r].pc = "new"
  /\ LET s == st[r]
         q == s.req
         denied == authenticate_v2(key, q.auth)
     IN  \E id \in FreshIds(r) :
           st' = [st EXCEPT ![r] =
             IF q.method = "OPTIONS" THEN Respond(s, handleCorsPreflight)
             ELSE IF StartsWithV1(q.path) /\ denied.kind # "none"
                  THEN Respond(s, denied)
             ELSE IF q.path = ModelsPath THEN Respond(s, handleModelsRequest)
             ELSE IF q.path = ChatPath /\ q.method = "POST"
                  THEN [s EXCEPT !.requestId = id, !.pc = "awaitJson",
                                 !.bodyRead = TRUE]
             ELSE Respond(s, createErrorResponse(404, "not_found"))]
  /\ UNCHANGED <<key, rev, rawData, lineIdx, fullText>>

\* ------------------------------------------------------ src/index.ts:89-108
\* request.json() settles: a malformed body throws into the catch of line
\* 179; otherwise the form is built and the upstream is called
handleChatCompletions_json(r) ==
  /\ r \in DOMAIN st
  /\ rev = "index"
  /\ st[r].pc = "awaitJson"
  /\ st' = [st EXCEPT ![r] =
       IF ~@.req.body.valid
       THEN Respond(@, createErrorResponse(500, "internal_server_error"))
       ELSE [@ EXCEPT !.pc = "awaitUpstream", !.upstreamCalls = @ + 1]]
  /\ UNCHANGED <<key, rev, rawData, lineIdx, fullText>>

\* ---------------------------------------------- src/unnamed/part_001:101-123
handleChatCompletions_json_v2(r) ==
  /\ r \in DOMAIN st
  /\ rev = "part_001"
  /\ st[r].pc = "awaitJson"
  /\ st' = [st EXCEPT ![r] =
       IF ~@.req.body.valid
       THEN Respond(@, createErrorResponse(500, "internal_error"))
       ELSE [@ EXCEPT !.pc = "awaitUpstream", !.upstreamCalls = @ + 1]]
  /\ UNCHANGED <<key, rev, rawData, lineIdx, fullText>>

\* ----------------------------------------------------- src/index.ts:110-182
\* what handleChatCompletions does with the upstream's reply
completeChat(s, reply) ==
  LET s1 == [s EXCEPT !.reply = reply.outcome, !.upBody = reply.lines]
      fullContent == ExtractContent(reply.lines)
      \* requestData.model || CONFIG.DEFAULT_MODEL
      model == IF s.req.body.model # "" THEN s.req.body.model ELSE DEFAULT_MODEL
  IN  IF reply.outcome = "rejected"
      THEN Respond(s1, createErrorResponse(500, "internal_server_error"))
      ELSE IF reply.outcome = "status"
      THEN Respond(s1, createErrorResponse(reply.status, "upstream_error"))
      ELSE IF ~Truthy(fullContent)
      THEN Respond(s1, createErrorResponse(502, "bad_gateway"))
      ELSE IF s.req.body.stream # "false"
      THEN \* text.split on a value that is no string throws a TypeError
           IF fullContent.t # "string"
           THEN Respond(s1, createErrorResponse(500, "internal_server_error"))
           ELSE Respond(createPseudoStream(s1, fullContent.s, s.requestId, model),
                        streamResponse(s.requestId, model, fullContent))
      ELSE Respond(s1, openAIResponse(s.requestId, model, fullContent))

upstreamSettles(r, replies) ==
  /\ r \in DOMAIN st
  /\ rev = "index"
  /\ st[r].pc = "awaitUpstream"
  /\ \E reply \in replies :
       st' = [st EXCEPT ![r] = completeChat(@, reply)]
  /\ UNCHANGED <<key, rev, rawData, lineIdx, fullText>>

handleChatCompletions_upstream(r) == upstreamSettles(r, UpstreamReplies)

\* ---------------------------------------------- src/unnamed/part_001:125-176
completeChat_v2(s, reply) ==
  LET s1 == [s EXCEPT !.reply = reply.outcome, !.upBody = reply.lines]
      e == ExtractContent_v2(reply.lines)
      isStream == s.req.body.stream = "true"
      model == IF s.req.body.model # "" THEN s.req.body.model ELSE DEFAULT_MODEL
  IN  IF reply.outcome = "rejected"
      THEN Respond(s1, createErrorResponse(500, "internal_error"))
      ELSE IF reply.outcome = "status"
      THEN Respond(s1, createErrorResponse(502, "upstream_error"))
      ELSE IF e.threw
      THEN Respond(s1, createErrorResponse(500, "internal_error"))
      ELSE IF ~e.valid
      THEN Respond(s1, createErrorResponse(502, "bad_gateway"))
      ELSE IF isStream
      THEN Respond(createPseudoStream(s1, e.val.s, s.requestId, model),
                   streamResponse(s.requestId, model, e.val))
      ELSE Respond(s1, openAIResponse(s.requestId, model, e.val))

upstreamSettles_v2(r, replies) ==
  /\ r \in DOMAIN st
  /\ rev = "part_001"
  /\ st[r].pc = "awaitUpstream"
  /\ \E reply \in replies :
       st' = [st EXCEPT ![r] = completeChat_v2(@, reply)]
  /\ UNCHANGED <<key, rev, rawData, lineIdx, fullText>>

handleChatCompletions_upstream_v2(r) == upstreamSettles_v2(r, UpstreamReplies)

\* ----------------------------------------------------- src/index.ts:229-266
\* The loop from element i on, up to its next suspension.
Loop(s, i) == IF rev = "index" THEN iterate(s, i) ELSE iterate_v2(s, i)

\* the ReadableStream constructor calls start(controller)
start(r) ==
  /\ r \in DOMAIN st
  /\ st[r].phase = "Idle"
  /\ st' = [st EXCEPT ![r] = Loop(@, 1)]
  /\ UNCHANGED <<key, rev, rawData, lineIdx, fullText>>

\* the pacing timer fires and start() goes on with the next element
resume(r) ==
  /\ r \in DOMAIN st
  /\ st[r].phase = "Emitting"
  /\ st' = [st EXCEPT ![r] = Loop(@, @.i + 1)]
  /\ UNCHANGED <<key, rev, rawData, lineIdx, fullText>>

\* the final chunk, the sentinel and controller.close()
finish(r) ==
  /\ r \in DOMAIN st
  /\ st[r].phase = "Finishing"
  /\ st' = [st EXCEPT ![r] = finishStream(@)]
  /\ UNCHANGED <<key, rev, rawData, lineIdx, fullText>>

\* The client disconnects while start() is suspended: the runtime cancels
\* the response body, which closes the stream.  The underlying source has
\* no cancel() method, so start() learns of it at its next enqueue.
cancel(r) ==
  /\ r \in DOMAIN st
  /\ st[r].phase = "Emitting"
  /\ st[r].chan = "readable"
  /\ st' = [st EXCEPT ![r] = [@ EXCEPT !.chan = "closed", !.cancelled = TRUE]]
  /\ UNCHANGED <<key, rev, rawData, lineIdx, fullText>>

\* ----------------------------------------------------- src/index.ts:195-216
\* one iteration of accumulateStreamData's loop
accumulateStep ==
  /\ lineIdx < Len(rawData)
  /\ fullText' = accumulateLine(fullText, rawData[lineIdx + 1])
  /\ lineIdx' = lineIdx + 1
  /\ UNCHANGED <<key, rev, st, rawData>>

\* ========================================================== specifications
\* The gateway serving the requests of Requests.
Init ==
  /\ key \in Keys
  /\ rev \in Revs
  /\ st \in [{"r1"} -> {NewRequest(q) : q \in HttpRequests}]
  /\ rawData = <<>>
  /\ lineIdx = 0
  /\ fullText = <<>>

Next ==
  \E r \in Requests :
    \/ fetch(r)
    \/ fetch_v2(r)
    \/ handleChatCompletions_json(r)
    \/ handleChatCompletions_json_v2(r)
    \/ handleChatCompletions_upstream(r)
    \/ handleChatCompletions_upstream_v2(r)
    \/ start(r)
    \/ resume(r)
    \/ finish(r)
    \/ cancel(r)

Spec == Init /\ [][Next]_vars

\* Timers fire and the synchronous parts of start() run: the emitter's own
\* steps are weakly fair.  Nothing obliges a client to disconnect.
Emit == \E r \in Requests : start(r) \/ resume(r) \/ finish(r)

FairSpec == Spec /\ WF_vars(Emit)

\* Two chat requests in flight at once.  The host runtime runs each handler
\* up to its next await and then takes any task that is ready, so the steps
\* of the two requests interleave freely.
ConcTexts == {<<"a", " ", "b">>, <<" ", "a">>, <<"b", " ">>}

ConcReplies ==
  {[outcome |-> "rejected", status |-> 0, lines |-> <<BlankLine>>],
   [outcome |-> "status", status |-> 503, lines |-> <<GarbageLine>>]}
  \cup {[outcome |-> "ok", status |-> 200,
         lines |-> <<JsonLine(FALSE, ObjDoc(TRUE, Data(Str(t)), NoChoices))>>] :
          t \in ConcTexts}

ConcRequests ==
  {q \in HttpRequests :
     /\ q.method = "POST"
     /\ q.path = ChatPath
     /\ q.auth = [present |-> TRUE, bearer |-> TRUE, token |-> "k"]
     /\ q.body.valid
     /\ q.body.stream = "true"}

InitConc ==
  /\ key \in Keys
  /\ rev \in Revs
  /\ st \in [Requests -> {NewRequest(q) : q \in ConcRequests}]
  /\ rawData = <<>>
  /\ lineIdx = 0
  /\ fullText = <<>>

handleChatCompletions_upstreamConc(r) == upstreamSettles(r, ConcReplies)
handleChatCompletions_upstreamConc_v2(r) == upstreamSettles_v2(r, ConcReplies)

NextConc ==
  \E r \in Requests :
    \/ fetch(r)
    \/ fetch_v2(r)
    \/ handleChatCompletions_json(r)
    \/ handleChatCompletions_json_v2(r)
    \/ handleChatCompletions_upstreamConc(r)
    \/ handleChatCompletions_upstreamConc_v2(r)
    \/ start(r)
    \/ resume(r)
    \/ finish(r)
    \/ cancel(r)

\* the emitter steps of one request: each request's timers fire on their own
EmitOf(r) == start(r) \/ resume(r) \/ finish(r)

ConcSpec ==
  /\ InitConc
  /\ [][NextConc]_vars
  /\ \A r \in Requests : WF_vars(EmitOf(r))

\* accumulateStreamData run on every body of up to MaxRaw lines.
SalvageDocs ==
  {NullDoc,
   ObjDoc(FALSE, NoData, Choices(<<>>)),
   Message(NoData, Str(<<"a">>)),
   Delta(Undef), Delta(Num), Delta(Str(<<>>)),
   Delta(Str(<<"a">>)), Delta(Str(<<"b">>)), Delta(Str(<<" ">>))}

SalvageLines ==
  {Line(pad, FALSE, "blank", NullDoc) : pad \in BOOLEAN}
  \cup {Line(pad, TRUE, "done", NullDoc) : pad \in BOOLEAN}
  \cup {Line(FALSE, prefix, "garbage", NullDoc) : prefix \in BOOLEAN}
  \cup {Line(FALSE, TRUE, "json", d) : d \in SalvageDocs}
  \cup {Line(TRUE, TRUE, "json", Delta(Str(<<"b">>))),
        Line(FALSE, FALSE, "json", Delta(Str(<<"a">>))),
        Line(TRUE, FALSE, "json", Delta(Str(<<" ">>)))}

InitSalvage ==
  /\ key = DEFAULT_KEY
  /\ rev = "index"
  /\ st = [r \in {} |-> NewRequest(CHOOSE q \in HttpRequests : TRUE)]
  /\ rawData \in UNION {[1..n -> SalvageLines] : n \in 1..MaxRaw}
  /\ lineIdx = 0
  /\ fullText = <<>>

NextSalvage == accumulateStep

SpecSalvage == InitSalvage /\ [][NextSalvage]_vars

\* ================================================================= claims
Streams == {r \in DOMAIN st : st[r].phase # "none"}

IsContent(c) == c.object = "chat.completion.chunk" /\ c.hasContent
IsTerminal(c) ==
  c.object = "chat.completion.chunk" /\ ~c.hasContent /\ c.finish_reason = "stop"

\* the delta.content fragments written so far, in emission order
Fragments(s) ==
  LET cs == SelectSeq(s.written, IsContent)
  IN  [k \in 1..Len(cs) |-> cs[k].content]

IsPrefix(a, b) == Len(a) <= Len(b) /\ a = SubSeq(b, 1, Len(a))

Count(seq, P(_)) == Len(SelectSeq(seq, P))

IsSentinel(c) == c = DoneSentinel

\* the emission ran to its end without a client disconnect
Completed(r) ==
  r \in DOMAIN st /\ st[r].phase = "Closed" /\ ~st[r].cancelled

\* content chunks only, then the terminal chunk, then the sentinel, and the
\* channel closed
EndsWell(s) ==
  LET n == Len(s.written)
  IN  /\ n >= 2
      /\ \A k \in 1..(n - 2) : IsContent(s.written[k])
      /\ IsTerminal(s.written[n - 1])
      /\ s.written[n] = DoneSentinel
      /\ Count(s.written, IsTerminal) = 1
      /\ Count(s.written, IsSentinel) = 1
      /\ s.chan = "closed"

SentinelWritten(r) ==
  r \in DOMAIN st /\ Count(st[r].written, IsSentinel) > 0

\* C1: an emission that is not cancelled eventually has written its content
\* chunks, then exactly one terminal chunk, then exactly one [DONE]
\* sentinel, and closed the channel; once the sentinel is written nothing
\* more is written.
C1_TerminalThenDone ==
  /\ \A r \in Requests :
       [](r \in Streams =>
            <>(r \in DOMAIN st /\ (st[r].cancelled
                                   \/ (Completed(r) /\ EndsWell(st[r])))))
  /\ [](\A r \in Requests : Completed(r) => EndsWell(st[r]))
  /\ [][\A r \in Requests :
          SentinelWritten(r) => st'[r].written = st[r].written]_vars

C1_Witness ==
  \E r \in Streams :
    /\ Completed(r) /\ EndsWell(st[r])
    /\ Len(st[r].written) >= 5

\* The class of a character: whitespace or not.  A fragment is one run when
\* it is not empty and all its characters are of one class.
IsRun(f) == f # <<>> /\ \A k \in 1..Len(f) : IsSpace(f[k]) = IsSpace(f[1])

\* C2: the fragments written so far are, in order, the maximal runs of
\* whitespace and of other characters that make up a prefix of the answer
\* text T, and once the emission has completed their concatenation is T.
C2_RoundTrip ==
  \A r \in Streams :
    LET s == st[r]
        T == s.resp.content.s
        fs == Fragments(s)
        done == Flatten(fs)
    IN  /\ IsPrefix(done, T)
        /\ \A k \in 1..Len(fs) : IsRun(fs[k])
        /\ \A k \in 1..(Len(fs) - 1) : IsSpace(fs[k][1]) # IsSpace(fs[k + 1][1])
        /\ (Len(fs) > 0 /\ Len(done) < Len(T))
             => IsSpace(T[Len(done) + 1]) # IsSpace(fs[Len(fs)][1])
        /\ Completed(r) => done = T

C2_Witness ==
  \E r \in Streams :
    /\ Completed(r)
    /\ Len(Fragments(st[r])) = 2
    /\ Len(st[r].resp.content.s) = 3
    /\ IsSpace(st[r].resp.content.s[1])
    /\ Flatten(Fragments(st[r])) = st[r].resp.content.s

\* C3: after a client disconnect during the loop nothing more is written
\* (no element, no terminal chunk, no sentinel), at most one further loop
\* iteration begins, the emitter eventually stops, and the channel is closed
\* and never errored.
C3_CancelStops ==
  /\ [](\A r \in Streams :
          st[r].cancelled =>
            /\ st[r].chan = "closed"
            /\ Count(st[r].written, IsTerminal) = 0
            /\ Count(st[r].written, IsSentinel) = 0
            /\ st[r].lateIters <= 1)
  /\ [][\A r \in Streams :
          st[r].cancelled => st'[r].written = st[r].written]_vars
  /\ \A r \in Requests :
       [](r \in Streams /\ st[r].cancelled
            => <>(r \in Streams /\ st[r].phase = "Closed"
                  /\ st[r].chan = "closed"))

C3_Witness ==
  \E r \in Streams :
    /\ st[r].cancelled
    /\ st[r].phase = "Closed"
    /\ st[r].lateIters = 1
    /\ Len(st[r].written) < Len(SelectSeq(st[r].words, LAMBDA w : w # <<>>))

PhaseRank(p) ==
  CASE p = "none" -> 0
    [] p = "Idle" -> 1
    [] p = "Emitting" -> 2
    [] p = "Finishing" -> 3
    [] p = "Closed" -> 4

\* C4 as claimed: in no run, completed or cancelled, is a write attempted on
\* a closed channel.
C4_NoWriteAttemptedAfterClose ==
  \A r \in Streams : st[r].lateWrites = 0

\* C4 as amended: the emitter moves Idle -> Emitting -> Finishing -> Closed
\* and never leaves Closed; a closed channel stays closed and takes no
\* write; a completed run attempts no write on the closed channel and a
\* cancelled run attempts exactly one, which is rejected and ends the
\* emitter.
C4_NoWriteAfterClose ==
  /\ [][\A r \in Streams :
          /\ PhaseRank(st'[r].phase) >= PhaseRank(st[r].phase)
          /\ st[r].phase = "Closed" => st'[r] = st[r]
          /\ st[r].chan = "closed" =>
               st'[r].chan = "closed" /\ st'[r].written = st[r].written]_vars
  /\ [](\A r \in Streams :
          /\ st[r].phase = "Closed" => st[r].chan = "closed"
          /\ st[r].lateWrites <= 1
          /\ st[r].lateWrites = 1 => st[r].cancelled /\ st[r].phase = "Closed"
          /\ st[r].cancelled /\ st[r].phase = "Closed" => st[r].lateWrites = 1)

C4_Witness ==
  \E r \in Streams :
    st[r].phase = "Closed" /\ st[r].cancelled /\ st[r].lateWrites = 1

\* requestData.model || CONFIG.DEFAULT_MODEL, as the request fixes it
ChosenModel(q) == IF q.body.model # "" THEN q.body.model ELSE DEFAULT_MODEL

IsChunk(c) == c.object = "chat.completion.chunk"

\* C5: the request id minted at entry never changes, and it and the model
\* chosen at entry are the id and model of every content-delta chunk, of
\* the terminal chunk and of the non-streaming envelope.
C5_IdAndModelThreaded ==
  /\ [](\A r \in DOMAIN st :
          LET s == st[r]
          IN  /\ s.resp.kind \in {"completion", "stream"} =>
                   /\ s.requestId \in Ids
                   /\ s.resp.id = s.requestId
                   /\ s.resp.model = ChosenModel(s.req)
              /\ \A k \in 1..Len(s.written) :
                   IsChunk(s.written[k]) =>
                     /\ s.written[k].id = s.requestId
                     /\ s.written[k].model = ChosenModel(s.req))
  /\ [][\A r \in DOMAIN st :
          st[r].requestId # "" => st'[r].requestId = st[r].requestId]_vars

C5_Witness ==
  \E r \in Streams :
    /\ Completed(r)
    /\ st[r].req.body.model = "m1"
    /\ Count(st[r].written, IsContent) >= 2
    /\ \A k \in 1..Len(st[r].written) :
         IsChunk(st[r].written[k]) =>
           st[r].written[k].id = st[r].requestId /\ st[r].written[k].model = "m1"

\* ------------------------------------------------ what the spec calls shapes
\* {"data":{"response_content": S}} with a string S
DataShape(doc) ==
  doc.t = "object" /\ doc.data.t = "object"
    /\ doc.data.response_content.t = "string"

\* {"choices":[{"message":{"content": S}}]} with a string S
ChoicesShape(doc) ==
  /\ doc.t = "object" /\ doc.choices.t = "array"
  /\ Len(doc.choices.elems) > 0
  /\ doc.choices.elems[1].message.t = "object"
  /\ doc.choices.elems[1].message.content.t = "string"

\* the fragment a line contributes on the salvage path: the
\* choices[0].delta.content of a line that holds JSON, nothing otherwise
LineFragment(l) ==
  IF /\ l.kind = "json"
     /\ l.doc.t = "object"
     /\ l.doc.choices.t = "array"
     /\ Len(l.doc.choices.elems) > 0
     /\ l.doc.choices.elems[1].delta.t = "object"
     /\ l.doc.choices.elems[1].delta.content.t \in {"string", "number"}
  THEN l.doc.choices.elems[1].delta.content.s
  ELSE <<>>

Salvaged(lines, n) == Flatten([k \in 1..n |-> LineFragment(lines[k])])

\* the request got a 2xx upstream reply and has been answered
Answered(r) ==
  r \in DOMAIN st /\ st[r].pc = "responded" /\ st[r].reply = "ok"

IsSuccess(resp) == resp.status = 200 /\ resp.kind \in {"completion", "stream"}

\* the two answer fields of a document are strings or absent
PlainFields(doc) ==
  /\ doc.data.response_content.t \in {"string", "undefined"}
  /\ \A k \in 1..Len(doc.choices.elems) :
       doc.choices.elems[k].message.content.t \in {"string", "undefined"}

\* C6: a 2xx upstream body that is valid JSON (its answer fields strings or
\* absent), has neither shape with a non-empty string and salvages to
\* nothing is answered 502 bad_gateway, and no success response carries an
\* empty answer.
C6_EmptyIsBadGateway ==
  \A r \in DOMAIN st :
    Answered(r) =>
      LET s == st[r]
          p == JSONparseBody(s.upBody)
          noAnswer ==
            /\ p.ok
            /\ PlainFields(p.doc)
            /\ ~(DataShape(p.doc) /\ p.doc.data.response_content.s # <<>>)
            /\ ~(ChoicesShape(p.doc)
                   /\ p.doc.choices.elems[1].message.content.s # <<>>)
            /\ Salvaged(s.upBody, Len(s.upBody)) = <<>>
      IN  /\ noAnswer => s.resp.status = 502 /\ s.resp.code = "bad_gateway"
          /\ IsSuccess(s.resp) => s.resp.content # Str(<<>>)

\* the body is exactly {"choices":[{"message":{"content": S}}]}
IsChoicesBody(lines, S) ==
  lines = <<JsonLine(FALSE, Message(NoData, Str(S)))>>

\* C7 as claimed: for every string S, the empty one included, the index.ts
\* normalizer returns S for the body {"choices":[{"message":{"content":S}}]}.
C7_ChoicesAnyString ==
  \A r \in DOMAIN st :
    (Answered(r) /\ rev = "index") =>
      \A S \in Texts :
        IsChoicesBody(st[r].upBody, S) =>
          IsSuccess(st[r].resp) /\ st[r].resp.content = Str(S)

\* C7 as amended: for every non-empty string S the index.ts normalizer
\* returns exactly S for the body {"choices":[{"message":{"content":S}}]},
\* and the client receives S.
C7_ChoicesNonEmpty ==
  \A r \in DOMAIN st :
    (Answered(r) /\ rev = "index") =>
      \A S \in Texts \ {<<>>} :
        IsChoicesBody(st[r].upBody, S) =>
          /\ ExtractContent(st[r].upBody) = Str(S)
          /\ IsSuccess(st[r].resp) /\ st[r].resp.content = Str(S)

C7_Witness ==
  \E r \in DOMAIN st :
    /\ Answered(r) /\ rev = "index"
    /\ IsChoicesBody(st[r].upBody, <<"a", " ", "b">>)
    /\ st[r].resp.kind = "completion"
    /\ st[r].resp.content = Str(<<"a", " ", "b">>)

\* C8: every body {"data":{"response_content": S}} with a non-empty string
\* S, whatever else it holds (no success field, a choices field), is
\* answered with exactly S.
C8_DataShapeWins ==
  \A r \in DOMAIN st :
    Answered(r) =>
      LET p == JSONparseBody(st[r].upBody)
      IN  (p.ok /\ DataShape(p.doc) /\ p.doc.data.response_content.s # <<>>) =>
            /\ IsSuccess(st[r].resp)
            /\ st[r].resp.content = p.doc.data.response_content

\* C9: after n lines accumulateStreamData holds the concatenation, in line
\* order, of the delta.content fragments of the lines among the first n
\* that hold JSON; blank lines, [DONE] lines and unparseable lines add
\* nothing and stop nothing.
C9_SalvageConcatenates ==
  /\ lineIdx <= Len(rawData)
  /\ fullText = Salvaged(rawData, lineIdx)
  /\ lineIdx = Len(rawData) => accumulateStreamData(rawData) = fullText

C9_Witness ==
  /\ lineIdx = 3 /\ Len(rawData) = 3
  /\ rawData[1] = Line(TRUE, TRUE, "json", Delta(Str(<<"b">>)))
  /\ rawData[2].kind = "garbage"
  /\ rawData[3] = Line(FALSE, FALSE, "json", Delta(Str(<<"a">>)))
  /\ fullText = <<"b", "a">>

\* the Authorization header carries the configured key as a bearer token
GoodToken(h, k) == h.present /\ h.bearer /\ h.token = k

Unauthenticated(r) ==
  /\ r \in DOMAIN st
  /\ key # DEFAULT_KEY
  /\ st[r].req.path = ChatPath
  /\ ~GoodToken(st[r].req.auth, key)

Rejected(resp) ==
  /\ resp.kind = "error"
  /\ resp.status \in {401, 403}
  /\ resp.code \in {"unauthorized", "invalid_api_key"}

NothingStarted(s) ==
  s.upstreamCalls = 0 /\ ~s.bodyRead /\ s.phase = "none"

\* C10 as claimed: with a non-default key, every request to
\* /v1/chat/completions without the right bearer token is answered 401/403
\* (unauthorized or invalid_api_key), and nothing is started for it.
C10_EveryRequestRejected ==
  \A r \in Requests :
    Unauthenticated(r) =>
      /\ NothingStarted(st[r])
      /\ st[r].pc = "responded" => Rejected(st[r].resp)

\* C10 as amended: with a non-default key, every request to
\* /v1/chat/completions other than a CORS preflight (method OPTIONS)
\* without the right bearer token is answered 401/403 (unauthorized or
\* invalid_api_key); for no such request, preflight or not, is the upstream
\* called, the body read or a stream started.
C10_NonPreflightRejected ==
  \A r \in Requests :
    Unauthenticated(r) =>
      /\ NothingStarted(st[r])
      /\ st[r].pc \in {"new", "responded"}
      /\ (st[r].pc = "responded" /\ st[r].req.method # "OPTIONS")
           => Rejected(st[r].resp)

C10_Witness ==
  \E r \in DOMAIN st :
    /\ Unauthenticated(r)
    /\ st[r].req.method = "POST"
    /\ st[r].req.auth.bearer /\ st[r].req.auth.token = "w"
    /\ st[r].pc = "responded"
    /\ Rejected(st[r].resp)
    /\ NothingStarted(st[r])

\* the request reached handleChatCompletions and its body is malformed JSON
MalformedAtHandler(r) ==
  r \in DOMAIN st /\ st[r].bodyRead /\ ~st[r].req.body.valid

\* C11: a malformed JSON body that reaches handleChatCompletions is answered
\* 500 in the error shape with code internal_server_error, the upstream is
\* not called for it, and no stream is started.
C11_MalformedIs500 ==
  \A r \in Requests :
    MalformedAtHandler(r) =>
      /\ st[r].upstreamCalls = 0
      /\ st[r].phase = "none"
      /\ st[r].pc \in {"awaitJson", "responded"}
      /\ st[r].pc = "responded" =>
           /\ st[r].resp.kind = "error"
           /\ st[r].resp.status = 500
           /\ st[r].resp.code = "internal_server_error"

\* the tokenization elements the loop has gone through so far
Visited(s) == SubSeq(s.words, 1, IF s.i > Len(s.words) THEN Len(s.words) ELSE s.i)

NonEmpty(w) == w # <<>>

\* C13: the emitter writes one content chunk per non-empty tokenization
\* element it has gone through and none for an empty one, and it has
\* suspended for the pacing interval exactly once per written content chunk,
\* so an empty element causes neither a chunk nor a suspension.
C13_OneSleepPerChunk ==
  \A r \in Streams :
    LET s == st[r]
    IN  /\ \A k \in 1..Len(s.written) :
             IsContent(s.written[k]) => s.written[k].content # <<>>
        /\ ~s.cancelled =>
             Fragments(s) = SelectSeq(Visited(s), NonEmpty)
        /\ s.sleeps = Count(s.written, IsContent)

\* the maximal runs of whitespace and of other characters of T, in order
RECURSIVE RunsOf(_)
RunsOf(T) ==
  IF T = <<>> THEN <<>>
  ELSE LET rest == RunsOf(Tail(T))
       IN  IF rest # <<>> /\ IsSpace(rest[1][1]) = IsSpace(T[1])
           THEN <<<<T[1]>> \o rest[1]>> \o Tail(rest)
           ELSE <<<<T[1]>>>> \o rest

\* what request r's response carries when r is the only request: one delta
\* per run of its answer text, the terminal chunk, the sentinel, all with
\* r's id and model
Alone(r) ==
  LET s == st[r]
      runs == RunsOf(s.resp.content.s)
  IN  [k \in 1..Len(runs) |->
         [object |-> "chat.completion.chunk", id |-> s.requestId,
          model |-> ChosenModel(s.req), hasContent |-> TRUE,
          content |-> runs[k], finish_reason |-> "null"]]
      \o <<[object |-> "chat.completion.chunk", id |-> s.requestId,
            model |-> ChosenModel(s.req), hasContent |-> FALSE,
            content |-> <<>>, finish_reason |-> "stop"],
           [object |-> "[DONE]", id |-> "", model |-> "",
            hasContent |-> FALSE, content |-> <<>>, finish_reason |-> ""]>>

\* request r has a handler or emitter step pending
Pending(r) ==
  \/ st[r].pc \in {"new", "awaitJson", "awaitUpstream"}
  \/ st[r].phase \in {"Idle", "Emitting", "Finishing"}

StepOf(r) ==
  \/ fetch(r) \/ fetch_v2(r)
  \/ handleChatCompletions_json(r) \/ handleChatCompletions_json_v2(r)
  \/ handleChatCompletions_upstreamConc(r)
  \/ handleChatCompletions_upstreamConc_v2(r)
  \/ EmitOf(r)

\* C12: with two requests in flight, under every interleaving what each
\* response has written is a prefix of the sequence it writes when alone
\* (its own id, model and fragments only) and is that whole sequence once it
\* completes; a step of one request changes nothing of the other; while one
\* response is suspended the other's pending step stays enabled; and every
\* started emission ends.
C12_Isolated ==
  /\ [](\A r \in Streams :
          /\ IsPrefix(st[r].written, Alone(r))
          /\ Completed(r) => st[r].written = Alone(r))
  /\ [][\A r1, r2 \in Requests :
          (r1 # r2 /\ st'[r1] # st[r1]) => st'[r2] = st[r2]]_vars
  /\ [](\A r1, r2 \in Requests :
          (r1 # r2 /\ st[r1].phase = "Emitting" /\ Pending(r2))
            => ENABLED StepOf(r2))
  /\ \A r \in Requests :
       [](r \in Streams => <>(st[r].phase = "Closed"))

\* r1 is suspended in mid-emission while r2, with another id and another
\* answer text, has run to its end
C12_Witness ==
  /\ st["r1"].phase = "Emitting"
  /\ ~st["r1"].cancelled
  /\ Len(st["r1"].written) = 1
  /\ Completed("r2")
  /\ Len(Fragments(st["r2"])) >= 2
  /\ st["r1"].requestId # st["r2"].requestId
  /\ st["r1"].text # st["r2"].text
  /\ ChosenModel(st["r1"].req) # ChosenModel(st["r2"].req)

====
